---------------------------- MODULE Spec2Model ----------------------------
(***************************************************************************)
(* Model of the SUMO-MCP demo backend (src/demo/backend/app.py):           *)
(*   - the section-segmentation loop of chat_stream.generate,              *)
(*   - the task-list store (current_todos) with its HTTP handlers and      *)
(*     socket notifications.                                               *)
(*                                                                         *)
(* Text is a sequence of lexical symbols, each standing for a fixed piece  *)
(* of characters: the single characters "[", "]", "{", "}", ":", ",",      *)
(* the double quote, " " (whitespace) and "a" (any other character), the   *)
(* words THINK, TOOL_CALL, TOOL_RESPONSE, ANSWER, TodoWrite, mount_module, *)
(* the JSON key "todos" with its quotes, and lexemes for the member list   *)
(* of one task item.  Offsets and lengths count symbols; they are 0-based  *)
(* as in Python, and -1 is find()'s "not found".                           *)
(***************************************************************************)
EXTENDS Integers, Sequences, FiniteSets, TLC

VARIABLES
    previous_text,      \* app.py:61   cumulative text returned by typewriter_print
    current_section,    \* app.py:63   name of the open section, <<>> for None
    last_marker_pos,    \* app.py:64
    last_sent_content,  \* app.py:65
    section_counters,   \* app.py:66
    pc,                 \* position of generate(): "running" (in the for loop), "done",
                        \* or "failed" (ended by the except clause of line 225)
    npieces,            \* number of input pieces consumed so far (bounds the input)
    trace,              \* everything generate() has yielded or done, in order
    local_todos,        \* app.py:107,215  the name current_todos inside generate():
                        \* an assignment without a global statement in generate()
                        \* binds a local of generate(); <<>> while unbound
    current_todos,      \* app.py:40
    sent,               \* socket messages emitted by the latest step
    req,                \* the HTTP request served by the latest step
    resp,               \* its response
    upd,                \* update_single_todo in flight between its two field writes
    mounted_modules,    \* sumo_tools.py:82
    mount_calls,        \* per module id, the calls of mcp.mount(server, prefix=id) so far
    mcp_servers,        \* per module id, the servers mcp holds under that prefix
    mount_result,       \* the return value of the latest mount_module call
    list_result,        \* the return value of the latest list_available_modules call
    mount_pending       \* the mount_module call that waits for a module to load

vars == <<previous_text, current_section, last_marker_pos, last_sent_content,
          section_counters, pc, npieces, trace, local_todos, current_todos, sent,
          req, resp, upd, mounted_modules, mount_calls, mcp_servers, mount_result,
          list_result, mount_pending>>

streamVars == <<previous_text, current_section, last_marker_pos, last_sent_content,
                section_counters, pc, npieces, trace, local_todos>>

storeVars == <<current_todos, sent, req, resp, upd>>

registryVars ==
    <<mounted_modules, mount_calls, mcp_servers, mount_result, list_result, mount_pending>>

-----------------------------------------------------------------------------
(* Bounds of the model *)

MaxPieces == 3
MaxGrow == 2
MaxTodos == 2
MaxIds == 2
MaxMountCalls == 2

-----------------------------------------------------------------------------
(* Python values *)

None == <<>>
Absent == "<absent>"
NotFound == 0 - 1

Min(S) == CHOOSE x \in S : \A y \in S : x <= y

At(s, i) == IF i \in 1..Len(s) THEN s[i] ELSE "<eof>"

\* text[i:j]
Slice(text, i, j) == SubSeq(text, i + 1, j)

\* text[pos:].startswith(needle)
StartsWithAt(text, needle, pos) ==
    /\ pos >= 0
    /\ pos + Len(needle) <= Len(text)
    /\ SubSeq(text, pos + 1, pos + Len(needle)) = needle

\* text.find(needle, start)
Find(text, needle, start) ==
    LET hits == {p \in start..(Len(text) - Len(needle)) : StartsWithAt(text, needle, p)}
    IN  IF hits = {} THEN NotFound ELSE Min(hits)

\* needle in text
Contains(text, needle) == Find(text, needle, 0) # NotFound

Whitespace == {" "}

RECURSIVE LStrip(_)
LStrip(s) == IF s # <<>> /\ Head(s) \in Whitespace THEN LStrip(Tail(s)) ELSE s

RECURSIVE RStrip(_)
RStrip(s) ==
    IF s # <<>> /\ s[Len(s)] \in Whitespace THEN RStrip(SubSeq(s, 1, Len(s) - 1)) ELSE s

\* s.strip()
Strip(s) == RStrip(LStrip(s))

-----------------------------------------------------------------------------
(* Section markers and names *)

section_markers ==
    << <<"[", "THINK", "]">>, <<"[", "TOOL_CALL", "]">>,
       <<"[", "TOOL_RESPONSE", "]">>, <<"[", "ANSWER", "]">> >>

BaseNames == {"think", "tool-calls", "tool-responses", "answer"}

\* marker.lower().replace('[','').replace(']','').replace('_','-'), then the
\* two plural forms
BaseSectionName(marker) ==
    LET lowered == CASE marker[2] = "THINK" -> "think"
                     [] marker[2] = "TOOL_CALL" -> "tool-call"
                     [] marker[2] = "TOOL_RESPONSE" -> "tool-response"
                     [] marker[2] = "ANSWER" -> "answer"
    IN  IF lowered = "tool-call" THEN "tool-calls"
        ELSE IF lowered = "tool-response" THEN "tool-responses"
        ELSE lowered

\* f"{base_section_name}-{counter}" when counter > 1, as the symbols of the name
\* (variant: the counter left out of the name)
SectionNameMut(base, counter) == <<base>>
SectionName(base, counter) ==
    IF counter > 1 THEN <<base, "-", ToString(counter)>> ELSE <<base>>

\* current_section.startswith('tool-calls') or ...startswith('tool-responses')
\* (variant: every section is taken for a tool section)
IsToolSectionMut(name) == name # None
IsToolSection(name) ==
    name # None /\ Head(name) \in {"tool-calls", "tool-responses"}

-----------------------------------------------------------------------------
(* Task items.  A Python dict with the keys id, content, status; a key the *)
(* dict does not have is Absent.                                           *)

ValidStatus == {"pending", "in_progress", "completed"}

Item(i, c, s) == [id |-> i, content |-> c, status |-> s]

\* The member list of one item as it is written in the text.
\*   #1   "id":"1","content":"a","status":"pending"
\*   #2   "id":"2","content":"a","status":"in_progress"
\*   #3   "content":"a"
\*   #4<  "id":"1","status":"pending","content":"a      (the string is left open:
\*        the symbols up to the next double quote are its remaining characters)
BodyLexemes == {"#1", "#2", "#3"}
OpenLexemes == {"#4<"}

ItemOfLexeme(lex) ==
    CASE lex = "#1" -> Item("1", "a", "pending")
      [] lex = "#2" -> Item("2", "a", "in_progress")
      [] lex = "#3" -> Item(Absent, "a", Absent)
      [] lex = "#4<" -> Item("1", "a", "pending")

RECURSIVE JoinStr(_)
JoinStr(s) == IF s = <<>> THEN "" ELSE Head(s) \o JoinStr(Tail(s))

-----------------------------------------------------------------------------
(* re.search(r'TodoWrite.*?(\{.*?"todos".*?\[.*?\].*?\})', s, re.DOTALL)   *)
(* Every quantifier is lazy and . matches anything, so the match starts at *)
(* the leftmost TodoWrite and takes the first "{" after it, the first      *)
(* "todos" key after that, then the first "[", the first "]" and the first *)
(* "}"; group(1) runs from that "{" to that "}".  None when one is absent. *)

FindAfter(s, sym, pos) == IF pos = NotFound THEN NotFound ELSE Find(s, <<sym>>, pos + 1)

GroupTo(s, i1, i5) == IF i5 = NotFound THEN None ELSE Slice(s, i1, i5 + 1)

GroupFrom(s, i1) ==
    GroupTo(s, i1,
            FindAfter(s, "}", FindAfter(s, "]", FindAfter(s, "[",
                FindAfter(s, "\"todos\"", i1)))))

TodoPatternGroup(s) == GroupFrom(s, FindAfter(s, "{", Find(s, <<"TodoWrite">>, 0)))

-----------------------------------------------------------------------------
(* json.loads on the captured group, over the symbols the text is made of: *)
(*   doc   ::= "{" "todos" ":" "[" [ item { "," item } ] "]" "}"           *)
(*   item  ::= "{" body "}"  |  "{" open-body chars... quote "}"           *)
(* with whitespace allowed between tokens.  Anything else raises           *)
(* (ok = FALSE).  1-based indices into the group.                          *)

RECURSIVE SkipWs(_, _)
SkipWs(g, i) == IF At(g, i) \in Whitespace THEN SkipWs(g, i + 1) ELSE i

ParseFail == [ok |-> FALSE, next |-> 0, val |-> <<>>]

\* first index >= i holding the closing double quote, 0 when there is none
RECURSIVE ClosingQuote(_, _)
ClosingQuote(g, i) ==
    IF i > Len(g) THEN 0 ELSE IF g[i] = "\"" THEN i ELSE ClosingQuote(g, i + 1)

\* the "}" of an item at e
ParseItemClose(g, val, e) ==
    IF At(g, e) = "}" THEN [ok |-> TRUE, next |-> e + 1, val |-> val] ELSE ParseFail

\* an item whose content string was left open by the lexeme at b and is
\* closed by the double quote at q
ParseOpenItem(g, b, q) ==
    IF q = 0 THEN ParseFail
    ELSE ParseItemClose(g,
            <<[ItemOfLexeme(g[b]) EXCEPT !.content = @ \o JoinStr(SubSeq(g, b + 1, q - 1))]>>,
            SkipWs(g, q + 1))

ParseItemBody(g, b) ==
    IF At(g, b) \in BodyLexemes
    THEN ParseItemClose(g, <<ItemOfLexeme(g[b])>>, SkipWs(g, b + 1))
    ELSE IF At(g, b) \in OpenLexemes THEN ParseOpenItem(g, b, ClosingQuote(g, b + 1))
    ELSE ParseFail

ParseItem(g, i) ==
    IF At(g, i) # "{" THEN ParseFail ELSE ParseItemBody(g, SkipWs(g, i + 1))

RECURSIVE ParseItems(_, _, _)

\* after an item: "," and more items, or the "]" of the array
ParseSeparator(g, acc, k) ==
    IF At(g, k) = "," THEN ParseItems(g, k + 1, acc)
    ELSE IF At(g, k) = "]" THEN [ok |-> TRUE, next |-> k + 1, val |-> acc]
    ELSE ParseFail

ParseAfterItem(g, acc, r) ==
    IF r.ok THEN ParseSeparator(g, acc \o r.val, SkipWs(g, r.next)) ELSE ParseFail

ParseItems(g, i, acc) == ParseAfterItem(g, acc, ParseItem(g, SkipWs(g, i)))

ParseArrayBody(g, j) ==
    IF At(g, j) = "]" THEN [ok |-> TRUE, next |-> j + 1, val |-> <<>>]
    ELSE ParseItems(g, j, <<>>)

ParseArray(g, i) ==
    IF At(g, i) # "[" THEN ParseFail ELSE ParseArrayBody(g, SkipWs(g, i + 1))

JsonFail == [ok |-> FALSE, todos |-> <<>>]

ParseDocClose(g, val, i5) ==
    IF At(g, i5) = "}" /\ SkipWs(g, i5 + 1) > Len(g)
    THEN [ok |-> TRUE, todos |-> val] ELSE JsonFail

ParseAfterArray(g, arr) ==
    IF arr.ok THEN ParseDocClose(g, arr.val, SkipWs(g, arr.next)) ELSE JsonFail

ParseColon(g, i3) ==
    IF At(g, i3) = ":" THEN ParseAfterArray(g, ParseArray(g, SkipWs(g, i3 + 1)))
    ELSE JsonFail

ParseKey(g, i2) ==
    IF At(g, i2) = "\"todos\"" THEN ParseColon(g, SkipWs(g, i2 + 1)) ELSE JsonFail

ParseDoc(g, i1) ==
    IF At(g, i1) = "{" THEN ParseKey(g, SkipWs(g, i1 + 1)) ELSE JsonFail

\* json.loads(todo_json_str), then .get('todos', []); ok = FALSE when it raises
JsonLoadsTodos(g) == ParseDoc(g, SkipWs(g, 1))

\* (variant: a failed json.loads leaves a list to store)
TodosOfParsedMut(parsed) == IF parsed.ok THEN parsed.todos ELSE <<[id |-> "1"]>>
TodosOfParsed(parsed) == IF parsed.ok THEN parsed.todos ELSE <<>>

TodosOfGroup(grp) == IF grp = None THEN <<>> ELSE TodosOfParsed(JsonLoadsTodos(grp))

\* lines 95-111: the TodoWrite check on a closing section's text: the list to
\* store, or <<>> when the check stores nothing (keyword absent, no match,
\* json.loads raised, or an empty list)
DetectTodoWrite(section_content) ==
    IF Contains(section_content, <<"TodoWrite">>)
    THEN TodosOfGroup(TodoPatternGroup(section_content))
    ELSE <<>>

\* line 114: "sumo_server-mount_module" in section_content
\*           or "mount_module" in section_content
DetectMountModule(section_content) ==
    \/ Contains(section_content, <<"sumo_server", "-", "mount_module">>)
    \/ Contains(section_content, <<"mount_module">>)

-----------------------------------------------------------------------------
(* The segmentation loop of generate(): one iteration of                   *)
(* "for response in qwen_client.bot.run(messages)" on the new cumulative   *)
(* text, as a function of the loop's variables.                            *)

\* One entry of the trace: a yielded event (section_start, content,
\* section_complete, complete) or a side effect generate() performed
\* (todos_assigned, broadcast, refresh_ok, refresh_failed).  pos is the marker
\* offset of the section it belongs to and at the length of the text it was
\* produced from.
Entry(type, section, content, pos, at) ==
    [type |-> type, section |-> section, content |-> content, pos |-> pos, at |-> at]

EventTypes == {"section_start", "content", "section_complete", "complete", "error"}

\* (variant: the first marker of the declared list that occurs wins)
NearerMut(acc, marker, pos) ==
    IF pos # NotFound /\ acc.marker = None THEN [marker |-> marker, pos |-> pos] ELSE acc
\* line 79: if pos != -1 and pos < next_marker_pos
Nearer(acc, marker, pos) ==
    IF pos # NotFound /\ pos < acc.pos THEN [marker |-> marker, pos |-> pos] ELSE acc

\* lines 73-81: the marker with the lowest offset at or after `from`
RECURSIVE ScanLoop(_, _, _, _)
ScanLoop(text, from, i, acc) ==
    IF i > Len(section_markers) THEN acc
    ELSE ScanLoop(text, from, i + 1,
                  Nearer(acc, section_markers[i], Find(text, section_markers[i], from)))

NextMarker(text, lmp) ==
    ScanLoop(text, lmp + 1, 1, [marker |-> None, pos |-> Len(text)])

\* lines 153-168: the first marker, in declared order, that occurs in the text
RECURSIVE FirstDeclared(_, _)
FirstDeclared(text, i) ==
    IF i > Len(section_markers) THEN [marker |-> None, pos |-> NotFound]
    ELSE IF Find(text, section_markers[i], 0) # NotFound
    THEN [marker |-> section_markers[i], pos |-> Find(text, section_markers[i], 0)]
    ELSE FirstDeclared(text, i + 1)

\* lines 173-177: the marker the open section starts with
RECURSIVE MarkerAt(_, _, _)
MarkerAt(text, lmp, i) ==
    IF i > Len(section_markers) THEN None
    ELSE IF StartsWithAt(text, section_markers[i], lmp) THEN section_markers[i]
    ELSE MarkerAt(text, lmp, i + 1)

\* line 188: end_pos = min(end_pos, pos)
\* (variant: the span never cut at a later marker)
EarlierMut(end_pos, pos) == end_pos
Earlier(end_pos, pos) == IF pos # NotFound /\ pos < end_pos THEN pos ELSE end_pos

\* (variant: the span runs to the end of the text)
EndPosMut(text, start_pos, i, end_pos) == Len(text)
\* lines 184-188: end of the content span
RECURSIVE EndPos(_, _, _, _)
EndPos(text, start_pos, i, end_pos) ==
    IF i > Len(section_markers) THEN end_pos
    ELSE EndPos(text, start_pos, i + 1,
                Earlier(end_pos, Find(text, section_markers[i], start_pos)))

\* line 181: start_pos = last_marker_pos + len(current_marker)
StartPos(lmp, marker) == lmp + Len(marker)

\* lines 181-190: previous_text[start_pos:end_pos].strip()
SectionContent(text, lmp, marker) ==
    Strip(Slice(text, StartPos(lmp, marker),
                EndPos(text, StartPos(lmp, marker), 1, Len(text))))

\* lines 171-190: the content of the open section, <<>> when there is none
ContentAfter(text, lmp, marker) ==
    IF marker # None THEN SectionContent(text, lmp, marker) ELSE <<>>

CurrentContent(text, cs, lmp) ==
    IF cs # None /\ lmp >= 0 THEN ContentAfter(text, lmp, MarkerAt(text, lmp, 1)) ELSE <<>>

\* lines 88-111 and 200-219: the list the closing section's TodoWrite check
\* stores, <<>> when it stores nothing
ClosingTodos(section, section_content) ==
    IF IsToolSection(section) THEN DetectTodoWrite(section_content) ELSE <<>>

\* lines 105-124: the side effects of closing a tool section, in the order
\* they are performed.  with_mount is FALSE after the loop, where the
\* mount_module check is not made.
CommandEffects(section, section_content, todos, lmp, at, with_mount, refresh_ok) ==
    (IF todos # <<>>
     THEN <<Entry("todos_assigned", section, <<>>, lmp, at),
            Entry("broadcast", section, <<>>, lmp, at)>>
     ELSE <<>>)
    \o (IF with_mount /\ DetectMountModule(section_content)
        THEN <<Entry(IF refresh_ok THEN "refresh_ok" ELSE "refresh_failed",
                     section, <<>>, lmp, at)>>
        ELSE <<>>)

\* lines 86-126 and 198-221: what closing the open section does and yields
\* (variant: section_complete yielded before the command checks)
CloseSectionMut(section, section_content, todos, lmp, at, with_mount, refresh_ok) ==
    <<Entry("section_complete", section, <<>>, lmp, at)>>
    \o (IF IsToolSection(section)
        THEN CommandEffects(section, section_content, todos, lmp, at, with_mount,
                            refresh_ok)
        ELSE <<>>)
\* (variant: a failed refresh leaves the section unclosed)
CloseSectionAbortMut(section, section_content, todos, lmp, at, with_mount, refresh_ok) ==
    (IF IsToolSection(section)
     THEN CommandEffects(section, section_content, todos, lmp, at, with_mount, refresh_ok)
     ELSE <<>>)
    \o (IF IsToolSection(section) /\ with_mount /\ DetectMountModule(section_content)
           /\ ~refresh_ok
        THEN <<>>
        ELSE <<Entry("section_complete", section, <<>>, lmp, at)>>)
CloseSection(section, section_content, todos, lmp, at, with_mount, refresh_ok) ==
    (IF IsToolSection(section)
     THEN CommandEffects(section, section_content, todos, lmp, at, with_mount, refresh_ok)
     ELSE <<>>)
    \o <<Entry("section_complete", section, <<>>, lmp, at)>>

\* lines 86-149: close the open section, if any, and open the one at nm
\* (variant: the open section is not closed)
OpenNextMut(text, cs, lmp, ctr, refresh_ok, nm, base, todos) ==
    [cs |-> SectionName(base, ctr[base] + 1), lmp |-> nm.pos, lsc |-> <<>>,
     ctr |-> [ctr EXCEPT ![base] = @ + 1],
     todos |-> todos,
     out |-> <<Entry("section_start", SectionName(base, ctr[base] + 1), <<>>,
                     nm.pos, Len(text))>>]
OpenNext(text, cs, lmp, ctr, refresh_ok, nm, base, todos) ==
    [cs |-> SectionName(base, ctr[base] + 1), lmp |-> nm.pos, lsc |-> <<>>,
     ctr |-> [ctr EXCEPT ![base] = @ + 1],
     todos |-> todos,
     out |-> (IF cs # None
              THEN CloseSection(cs, Slice(text, lmp, nm.pos), todos, lmp, Len(text),
                                TRUE, refresh_ok)
              ELSE <<>>)
             \o <<Entry("section_start", SectionName(base, ctr[base] + 1), <<>>,
                        nm.pos, Len(text))>>]

\* lines 152-168: no section yet
OpenFirst(text, cs, lmp, lsc, ctr, fd) ==
    IF cs = None /\ fd.marker # None
    THEN [cs |-> <<BaseSectionName(fd.marker)>>, lmp |-> fd.pos, lsc |-> <<>>,
          ctr |-> [ctr EXCEPT ![BaseSectionName(fd.marker)] = 1], todos |-> <<>>,
          out |-> <<Entry("section_start", <<BaseSectionName(fd.marker)>>, <<>>,
                          fd.pos, Len(text))>>]
    ELSE [cs |-> cs, lmp |-> lmp, lsc |-> lsc, ctr |-> ctr, todos |-> <<>>,
          out |-> <<>>]

\* line 84: if next_marker and next_marker_pos > last_marker_pos
BoundaryAt(text, cs, lmp, lsc, ctr, refresh_ok, nm) ==
    IF nm.marker # None /\ nm.pos > lmp
    THEN OpenNext(text, cs, lmp, ctr, refresh_ok, nm, BaseSectionName(nm.marker),
                  IF cs # None THEN ClosingTodos(cs, Slice(text, lmp, nm.pos)) ELSE <<>>)
    ELSE OpenFirst(text, cs, lmp, lsc, ctr, FirstDeclared(text, 1))

\* lines 72-168: the boundary part of one iteration
Boundary(text, cs, lmp, lsc, ctr, refresh_ok) ==
    BoundaryAt(text, cs, lmp, lsc, ctr, refresh_ok, NextMarker(text, lmp))

\* (variant: content is sent whether it changed or not)
EmitContentMut(text, b, content) ==
    IF content # <<>>
    THEN [b EXCEPT !.lsc = content,
                   !.out = @ \o <<Entry("content", b.cs, content, b.lmp, Len(text))>>]
    ELSE b
\* line 193: if content and content != last_sent_content
EmitContent(text, b, content) ==
    IF content # <<>> /\ content # b.lsc
    THEN [b EXCEPT !.lsc = content,
                   !.out = @ \o <<Entry("content", b.cs, content, b.lmp, Len(text))>>]
    ELSE b

\* lines 171-195: the content part of one iteration, on the boundary's result
\* (variant: the task-list check also runs on the open section's content)
ContentUpdateMut(text, b) ==
    EmitContent(text,
                [b EXCEPT !.out = @ \o (IF DetectTodoWrite(CurrentContent(text, b.cs, b.lmp)) # <<>>
                                        THEN <<Entry("broadcast", b.cs, <<>>, b.lmp, Len(text))>>
                                        ELSE <<>>)],
                CurrentContent(text, b.cs, b.lmp))
ContentUpdate(text, b) == EmitContent(text, b, CurrentContent(text, b.cs, b.lmp))

LoopBody(text, cs, lmp, lsc, ctr, refresh_ok) ==
    ContentUpdate(text, Boundary(text, cs, lmp, lsc, ctr, refresh_ok))

\* lines 197-223: after the loop
AfterLoop(text, cs, lmp, todos) ==
    (IF cs # None
     THEN CloseSection(cs, Slice(text, lmp, Len(text)), todos, lmp, Len(text),
                       FALSE, FALSE)
     ELSE <<>>)
    \o <<Entry("complete", None, <<>>, NotFound, Len(text))>>

-----------------------------------------------------------------------------
(* Inputs *)

Marker(i) == section_markers[i]

\* TodoWrite {"todos": [{#1}, {#2}]}
CmdTwo ==
    <<"TodoWrite", "{", "\"todos\"", ":", "[", "{", "#1", "}", ",", "{", "#2", "}", "]", "}">>
\* TodoWrite {"todos": [{"id":"1","status":"pending","content":"a]"}]}
CmdBracket ==
    <<"TodoWrite", "{", "\"todos\"", ":", "[", "{", "#4<", "]", "\"", "}", "]", "}">>
\* TodoWrite {"todos": [{"content":"a"}]}
CmdNoId ==
    <<"TodoWrite", "{", "\"todos\"", ":", "[", "{", "#3", "}", "]", "}">>

\* TodoWrite {"todos": []}
CmdEmpty == <<"TodoWrite", "{", "\"todos\"", ":", "[", "]", "}">>
\* TodoWrite with nothing after it
CmdBare == <<"TodoWrite">>

\* What one response of the agent may add to the text.
Pieces ==
    {Marker(i) : i \in 1..Len(section_markers)}
    \cup {<<"a">>, <<" ">>, <<"[", "ANSWER">>, <<"]">>, <<"mount_module">>,
          CmdTwo, CmdBracket, CmdNoId}

RECURSIVE Flatten(_)
Flatten(ps) == IF ps = <<>> THEN <<>> ELSE Head(ps) \o Flatten(Tail(ps))

\* Items a client may post: well-formed ones, and ones with an unknown
\* status or without one of the keys.
ValidReqItems == {Item("1", "a", "pending"), Item("2", "a", "completed")}

InvalidReqItems ==
    {Item("1", "a", "bogus"), Item("1", "a", Absent),
     Item(Absent, "a", "pending"), Item("1", Absent, "pending")}

ReqItems == ValidReqItems \cup InvalidReqItems

\* The `todos` lists a client may post: up to MaxTodos items, at most one of
\* them not well-formed, at any position.
ReqLists ==
    UNION {{l \in [1..n -> ReqItems] :
                Cardinality({k \in 1..n : l[k] \in InvalidReqItems}) <= 1} :
           n \in 0..MaxTodos}

\* The `update` object a client may post; Absent marks a key it does not have.
UpdateReqs ==
    [id : {"1", "3", Absent}, status : {"completed", "bogus", Absent},
     content : {"b", Absent}]

-----------------------------------------------------------------------------
(* Requests, responses, socket messages *)

NoUpdate == [id |-> Absent, status |-> Absent, content |-> Absent]
Request(op, todos, update) == [op |-> op, todos |-> todos, update |-> update]
NoReq == Request("none", <<>>, NoUpdate)

Response(code, success) == [code |-> code, success |-> success]
NoResp == Response(0, FALSE)

\* socketio.emit('todos_updated', {'todos': ...}) goes to every client,
\* emit(...) inside handle_connect to the connecting client
Msg(to, todos) == [to |-> to, todos |-> todos]

\* lines 42-44
\* (variant: nothing emitted)
broadcast_todosMut(todos) == <<>>
broadcast_todos(todos) == <<Msg("all", todos)>>

\* update_single_todo between its two writes: the item it holds is
\* current_todos[idx] as long as live; before is the list when it started
NoUpd == [stage |-> "idle", idx |-> 0, update |-> NoUpdate, live |-> FALSE,
          before |-> <<>>]

\* current_todos is rebound to another list: the item an update in flight
\* holds is no longer an item of current_todos
Detach(u) == IF u.stage = "idle" THEN u ELSE [u EXCEPT !.live = FALSE]

-----------------------------------------------------------------------------
(* The tool-module registry, src/mcp_sumo/sumo_tools.py.  It runs in the   *)
(* MCP server process; its tools are coroutines without an await, so each  *)
(* call runs to its end before another starts.                             *)

\* lines 18-79: the configured modules with their declared tools; two of
\* the ten modules, with the first tools of each
AVAILABLE_MODULES ==
    [m \in {"auxiliary", "detector"} |->
        IF m = "auxiliary"
        THEN [tools |-> <<"osm_download_by_place", "generate_random_trips">>]
        ELSE [tools |-> <<"convert_flow_to_edge_data">>]]

ModuleIds == DOMAIN AVAILABLE_MODULES

\* ids a caller passes: the configured ones and an unknown one
RequestIds == ModuleIds \cup {"nope"}

IdLists == UNION {[1..n -> RequestIds] : n \in 0..MaxIds}

\* what loading and attaching a module does in this call:
\*   ok             everything succeeds
\*   load_fails     importlib.import_module raises (line 195), or the server
\*                  variable is missing or not a server (198-222)
\*   mount_raises   mcp.mount raises (line 225)
\*   report_raises  a statement after mounted_modules.add raises (229-246)
\*   hangs          importlib.import_module does not return (line 195)
Loads == {"ok", "load_fails", "mount_raises", "report_raises", "hangs"}

\* the per-id result with what was done to mcp: attach is "none", "raised"
\* (mcp.mount called and raised), "done" (mcp.mount returned) or "hangs"
\* (no result: the call is still inside the import)
Single(success, error_type, attach) ==
    [success |-> success, error_type |-> error_type, attach |-> attach]

\* lines 193-270: the try of _mount_single_module
LoadAndMount(load) ==
    CASE load = "load_fails" -> Single(FALSE, "ImportError", "none")
      [] load = "mount_raises" -> Single(FALSE, "Exception", "raised")
      [] load = "report_raises" -> Single(FALSE, "AttributeError", "done")
      [] load = "ok" -> Single(TRUE, "", "done")
      [] load = "hangs" -> Single(FALSE, "", "hangs")

\* what loading module_id does in the call; a module the call has no reason
\* to load has no entry in load
Outcome(load, module_id) == IF module_id \in DOMAIN load THEN load[module_id] ELSE "ok"

\* lines 162-270
\* (variant: the already-mounted check left out)
_mount_single_moduleMut(module_id, mounted, load) ==
    IF module_id = "" THEN Single(FALSE, "ValidationError", "none")
    ELSE IF module_id \notin ModuleIds THEN Single(FALSE, "NotFound", "none")
    ELSE LoadAndMount(Outcome(load, module_id))
_mount_single_module(module_id, mounted, load) ==
    IF module_id = "" THEN Single(FALSE, "ValidationError", "none")
    ELSE IF module_id \notin ModuleIds THEN Single(FALSE, "NotFound", "none")
    ELSE IF module_id \in mounted THEN Single(FALSE, "AlreadyMounted", "none")
    ELSE LoadAndMount(Outcome(load, module_id))

Bump(f, id, by) == IF id \in DOMAIN f THEN [f EXCEPT ![id] = @ + by] ELSE f

\* lines 274-285: one iteration of the loop over module_ids, on the result
\* r of _mount_single_module
\* (variant: the loop stops at the first failure)
AfterSingleMut(st, module_id, r) ==
    IF st.waiting \/ st.failed_count > 0 THEN st
    ELSE IF r.attach = "hangs" THEN [st EXCEPT !.waiting = TRUE]
    ELSE [mounted |-> IF r.attach = "done" THEN st.mounted \cup {module_id} ELSE st.mounted,
          calls |-> Bump(st.calls, module_id, IF r.attach = "none" THEN 0 ELSE 1),
          servers |-> Bump(st.servers, module_id, IF r.attach = "done" THEN 1 ELSE 0),
          details |-> Append(st.details, [module_id |-> module_id, success |-> r.success,
                                          error_type |-> r.error_type]),
          success_count |-> st.success_count + (IF r.success THEN 1 ELSE 0),
          failed_count |-> st.failed_count + (IF r.success THEN 0 ELSE 1),
          waiting |-> FALSE]
\* st.waiting: an earlier id of the list is still loading, the loop has not
\* come to this id
AfterSingle(st, module_id, r) ==
    IF st.waiting THEN st
    ELSE IF r.attach = "hangs" THEN [st EXCEPT !.waiting = TRUE]
    ELSE [mounted |-> IF r.attach = "done" THEN st.mounted \cup {module_id} ELSE st.mounted,
          calls |-> Bump(st.calls, module_id, IF r.attach = "none" THEN 0 ELSE 1),
          servers |-> Bump(st.servers, module_id, IF r.attach = "done" THEN 1 ELSE 0),
          details |-> Append(st.details, [module_id |-> module_id, success |-> r.success,
                                          error_type |-> r.error_type]),
          success_count |-> st.success_count + (IF r.success THEN 1 ELSE 0),
          failed_count |-> st.failed_count + (IF r.success THEN 0 ELSE 1),
          waiting |-> FALSE]

\* lines 273-285: for module_id in module_ids
RECURSIVE MountLoop(_, _, _, _)
MountLoop(module_ids, load, i, st) ==
    IF i > Len(module_ids) THEN st
    ELSE MountLoop(module_ids, load, i + 1,
                   AfterSingle(st, module_ids[i],
                               _mount_single_module(module_ids[i], st.mounted, load)))

\* the return value of mount_module; has_report is FALSE for the
\* ValidationError of lines 140-145, which has no summary and no details
MountResult(requested, has_report, success, details, success_count, failed_count, total_mounted) ==
    [requested |-> requested, has_report |-> has_report, success |-> success,
     details |-> details, success_count |-> success_count,
     failed_count |-> failed_count, total_requested |-> Len(requested),
     total_mounted |-> total_mounted]

NoMountResult == MountResult(<<>>, FALSE, FALSE, <<>>, 0, 0, 0)

\* a mount_module call that has not returned: the ids it was given and the
\* per-id results it has so far
Pending(waiting, requested, details) ==
    [waiting |-> waiting, requested |-> requested, details |-> details]

NoPending == Pending(FALSE, <<>>, <<>>)

\* lines 290-305
MountReport(module_ids, st) ==
    MountResult(module_ids, TRUE, st.failed_count = 0, st.details, st.success_count,
                st.failed_count, Cardinality(st.mounted))

\* f"sumo_server-{module_id}_{tool}", line 98
ActualToolName(module_id, tool) == "sumo_server-" \o module_id \o "_" \o tool

\* lines 92-107: the entry of one module
\* (variant: the tool names listed whether mounted or not)
ModuleInfoMut(module_id, mounted) ==
    [tools |-> AVAILABLE_MODULES[module_id].tools,
     actual_tool_names |->
        [k \in 1..Len(AVAILABLE_MODULES[module_id].tools) |->
            ActualToolName(module_id, AVAILABLE_MODULES[module_id].tools[k])],
     is_mounted |-> module_id \in mounted]
ModuleInfo(module_id, mounted) ==
    [tools |-> AVAILABLE_MODULES[module_id].tools,
     actual_tool_names |->
        IF module_id \in mounted
        THEN [k \in 1..Len(AVAILABLE_MODULES[module_id].tools) |->
                ActualToolName(module_id, AVAILABLE_MODULES[module_id].tools[k])]
        ELSE <<>>,
     is_mounted |-> module_id \in mounted]

\* lines 118-124
ListResult(valid, mounted) ==
    [valid |-> valid,
     available_modules |-> [m \in ModuleIds |-> ModuleInfo(m, mounted)],
     total_modules |-> Cardinality(ModuleIds),
     mounted_count |-> Cardinality(mounted),
     unmounted_count |-> Cardinality(ModuleIds) - Cardinality(mounted)]

NoListResult == ListResult(FALSE, {})

-----------------------------------------------------------------------------
(* generate(), lines 56-227 *)

Init ==
    /\ previous_text = <<>>
    /\ current_section = None
    /\ last_marker_pos = NotFound
    /\ last_sent_content = <<>>
    /\ section_counters = [b \in BaseNames |-> 0]
    /\ pc = "running"
    /\ npieces = 0
    /\ trace = <<>>
    /\ local_todos = <<>>
    /\ current_todos = <<>>
    /\ sent = <<>>
    /\ req = NoReq
    /\ resp = NoResp
    /\ upd = NoUpd
    /\ mounted_modules = {}
    /\ mount_calls = [m \in ModuleIds |-> 0]
    /\ mcp_servers = [m \in ModuleIds |-> 0]
    /\ mount_result = NoMountResult
    /\ list_result = NoListResult
    /\ mount_pending = NoPending

\* lines 105-109 and 213-217: `current_todos = todos` binds generate()'s
\* local name (the global statement of line 48 is chat_stream's, not
\* generate()'s), then broadcast_todos() emits the module's current_todos
EngineWrite(todos) ==
    /\ req' = NoReq
    /\ resp' = NoResp
    /\ IF todos # <<>>
       THEN /\ local_todos' = todos
            /\ sent' = broadcast_todos(current_todos)
       ELSE /\ sent' = <<>>
            /\ UNCHANGED local_todos
    /\ UNCHANGED <<current_todos, upd>>
    /\ UNCHANGED registryVars

\* qwen_client.py lines 169-185: refresh_tools() returns True, or False when
\* bot._init_tool raised
refresh_tools(init_raises) == ~init_raises

\* one iteration of the loop: the agent's text has grown by k pieces of P
AdvanceFrom(P) ==
    /\ pc = "running"
    /\ \E k \in 1..MaxGrow :
         /\ npieces + k <= MaxPieces
         /\ npieces' = npieces + k
         /\ \E ps \in [1..k -> P], init_raises \in BOOLEAN :
            \E text \in {previous_text \o Flatten(ps)} :
            \E r \in {LoopBody(text, current_section, last_marker_pos,
                               last_sent_content, section_counters,
                               refresh_tools(init_raises))} :
                /\ previous_text' = text
                /\ current_section' = r.cs
                /\ last_marker_pos' = r.lmp
                /\ last_sent_content' = r.lsc
                /\ section_counters' = r.ctr
                /\ trace' = trace \o r.out
                /\ EngineWrite(r.todos)
    /\ pc' = pc

Advance == AdvanceFrom(Pieces)

\* the agent's run has ended: lines 197-223
Finalize ==
    /\ pc = "running"
    /\ pc' = "done"
    /\ \E todos \in {ClosingTodos(current_section,
                                  Slice(previous_text, last_marker_pos,
                                        Len(previous_text)))} :
         /\ trace' = trace \o AfterLoop(previous_text, current_section,
                                        last_marker_pos, todos)
         /\ EngineWrite(todos)
    /\ UNCHANGED <<previous_text, current_section, last_marker_pos,
                   last_sent_content, section_counters, npieces>>

\* lines 69-70 and 225-227: bot.run or typewriter_print raises inside the
\* try of generate(); the handler yields the error event and generate() ends
StreamError ==
    /\ pc = "running"
    /\ pc' = "failed"
    /\ trace' = trace \o <<Entry("error", None, <<>>, NotFound, Len(previous_text))>>
    /\ EngineWrite(<<>>)
    /\ UNCHANGED <<previous_text, current_section, last_marker_pos,
                   last_sent_content, section_counters, npieces>>

NextStream == Advance \/ Finalize \/ StreamError

SpecStream == Init /\ [][NextStream]_vars

\* the stream on texts made of the tool-call marker and of task-list
\* commands, well-formed and not
CommandPieces == {Marker(2), CmdTwo, CmdBracket, CmdEmpty, CmdBare}

AdvanceCommands == AdvanceFrom(CommandPieces)

NextCommands == AdvanceCommands \/ Finalize \/ StreamError

SpecCommands == Init /\ [][NextCommands]_vars

-----------------------------------------------------------------------------
(* The task-list endpoints, lines 304-389 *)

HasKeys(todo) == todo.id # Absent /\ todo.content # Absent /\ todo.status # Absent

\* lines 317-321: the status code of the validation loop, 200 when it passes
RECURSIVE ValidateTodos(_, _)
\* (variant: only the first item validated)
ValidateTodosMut(todos, i) ==
    IF todos = <<>> THEN 200
    ELSE IF ~HasKeys(todos[1]) THEN 400
    ELSE IF todos[1].status \notin ValidStatus THEN 400
    ELSE 200
ValidateTodos(todos, i) ==
    IF i > Len(todos) THEN 200
    ELSE IF ~HasKeys(todos[i]) THEN 400
    ELSE IF todos[i].status \notin ValidStatus THEN 400
    ELSE ValidateTodos(todos, i + 1)

\* POST /api/todos, lines 304-330
update_todos_from(L) ==
    \E todos \in L :
    \E code \in {ValidateTodos(todos, 1)} :
        /\ req' = Request("replace", todos, NoUpdate)
        /\ resp' = Response(code, code = 200)
        /\ IF code = 200
           THEN /\ current_todos' = todos
                /\ sent' = broadcast_todos(todos)
                /\ upd' = Detach(upd)
           ELSE /\ sent' = <<>>
                /\ UNCHANGED <<current_todos, upd>>
        /\ UNCHANGED <<streamVars, registryVars>>

update_todos == update_todos_from(ReqLists)

\* DELETE /api/todos, lines 332-345
clear_todos ==
    /\ req' = Request("clear", <<>>, NoUpdate)
    /\ resp' = Response(200, TRUE)
    /\ current_todos' = <<>>
    /\ sent' = broadcast_todos(<<>>)
    /\ upd' = Detach(upd)
    /\ UNCHANGED <<streamVars, registryVars>>

\* lines 364-372: the index of the first item whose id is `id`, 0 when the
\* loop ends without one, KeyErr when an item before it has no 'id' key
KeyErr == 0 - 1

RECURSIVE FindTodo(_, _, _)
\* (variant: the last item taken when no id matches)
FindTodoMut(todos, id, i) ==
    IF todos = <<>> THEN 0
    ELSE IF \E k \in 1..Len(todos) : todos[k].id = id
    THEN CHOOSE k \in 1..Len(todos) : todos[k].id = id
    ELSE Len(todos)
FindTodo(todos, id, i) ==
    IF i > Len(todos) THEN 0
    ELSE IF todos[i].id = Absent THEN KeyErr
    ELSE IF todos[i].id = id THEN i
    ELSE FindTodo(todos, id, i + 1)

\* POST /api/todos/update, lines 347-383, up to and including the write of
\* todo['status']; it goes on to the write of todo['content'] when the
\* request has one, and otherwise broadcasts and returns.  At most one
\* request is between its two writes at a time.
\* (variant: the loop goes on after the first item with the id)
update_single_todo_fromMut(U) ==
    /\ \E update \in U :
         /\ req' = Request("update", <<>>, update)
         /\ IF update.id = Absent \/ update.status = Absent
            THEN /\ resp' = Response(400, FALSE)
                 /\ sent' = <<>>
                 /\ UNCHANGED <<current_todos, upd>>
            ELSE \E f \in {FindTodo(current_todos, update.id, 1)} :
                 IF f = KeyErr
                 THEN /\ resp' = Response(500, FALSE)
                      /\ sent' = <<>>
                      /\ UNCHANGED <<current_todos, upd>>
                 ELSE IF f = 0
                 THEN /\ resp' = Response(404, FALSE)
                      /\ sent' = <<>>
                      /\ UNCHANGED <<current_todos, upd>>
                 ELSE /\ upd.stage = "idle"
                      /\ current_todos' = [k \in 1..Len(current_todos) |->
                                            IF current_todos[k].id = update.id
                                            THEN [current_todos[k] EXCEPT
                                                    !.status = update.status]
                                            ELSE current_todos[k]]
                      /\ IF update.content = Absent
                         THEN /\ sent' = broadcast_todos(current_todos')
                              /\ resp' = Response(200, TRUE)
                              /\ upd' = upd
                         ELSE /\ sent' = <<>>
                              /\ resp' = NoResp
                              /\ upd' = [stage |-> "content", idx |-> f,
                                         update |-> update, live |-> TRUE,
                                         before |-> current_todos]
    /\ UNCHANGED <<streamVars, registryVars>>
update_single_todo_from(U) ==
    /\ \E update \in U :
         /\ req' = Request("update", <<>>, update)
         /\ IF update.id = Absent \/ update.status = Absent
            THEN /\ resp' = Response(400, FALSE)
                 /\ sent' = <<>>
                 /\ UNCHANGED <<current_todos, upd>>
            ELSE \E f \in {FindTodo(current_todos, update.id, 1)} :
                 IF f = KeyErr
                 THEN /\ resp' = Response(500, FALSE)
                      /\ sent' = <<>>
                      /\ UNCHANGED <<current_todos, upd>>
                 ELSE IF f = 0
                 THEN /\ resp' = Response(404, FALSE)
                      /\ sent' = <<>>
                      /\ UNCHANGED <<current_todos, upd>>
                 ELSE /\ upd.stage = "idle"
                      /\ current_todos' = [current_todos EXCEPT ![f].status = update.status]
                      /\ IF update.content = Absent
                         THEN /\ sent' = broadcast_todos(current_todos')
                              /\ resp' = Response(200, TRUE)
                              /\ upd' = upd
                         ELSE /\ sent' = <<>>
                              /\ resp' = NoResp
                              /\ upd' = [stage |-> "content", idx |-> f,
                                         update |-> update, live |-> TRUE,
                                         before |-> current_todos]
    /\ UNCHANGED <<streamVars, registryVars>>

update_single_todo == update_single_todo_from(UpdateReqs)

\* lines 369-379: the write of todo['content'], the broadcast and the response
update_single_todo_content ==
    /\ upd.stage = "content"
    /\ req' = Request("update", <<>>, upd.update)
    /\ current_todos' = IF upd.live
                        THEN [current_todos EXCEPT ![upd.idx].content = upd.update.content]
                        ELSE current_todos
    /\ sent' = broadcast_todos(current_todos')
    /\ resp' = Response(200, TRUE)
    /\ upd' = NoUpd
    /\ UNCHANGED <<streamVars, registryVars>>

\* lines 385-389: a client connects
handle_connect ==
    /\ req' = Request("connect", <<>>, NoUpdate)
    /\ resp' = NoResp
    /\ sent' = <<Msg("client", current_todos)>>
    /\ UNCHANGED <<current_todos, upd>>
    /\ UNCHANGED <<streamVars, registryVars>>

NextStore ==
    \/ update_todos
    \/ clear_todos
    \/ update_single_todo
    \/ update_single_todo_content
    \/ handle_connect

SpecStore == Init /\ [][NextStore]_vars

-----------------------------------------------------------------------------
(* The chat stream and the task-list endpoints served side by side, on the *)
(* inputs in which the two meet: commands in a tool-calls section, and     *)
(* requests about the items those commands store.                          *)

CorePieces == {Marker(2), Marker(4), CmdTwo}

CoreItems == {Item("1", "a", "pending"), Item("1", "a", Absent)}

CoreLists == UNION {[1..n -> CoreItems] : n \in 0..MaxTodos}

CoreUpdates == [id : {"1", "3"}, status : {"completed"}, content : {"b", Absent}]

AdvanceCore == AdvanceFrom(CorePieces)

update_todos_core == update_todos_from(CoreLists)

update_single_todo_core == update_single_todo_from(CoreUpdates)

Next ==
    \/ AdvanceCore
    \/ Finalize
    \/ StreamError
    \/ update_todos_core
    \/ clear_todos
    \/ update_single_todo_core
    \/ update_single_todo_content
    \/ handle_connect

Spec == Init /\ [][Next]_vars

-----------------------------------------------------------------------------
(* The tools of the registry *)

\* the configured modules among the ids of a request; the call loads those
\* of them that are not mounted
Requested(module_ids) == {module_ids[i] : i \in 1..Len(module_ids)} \cap ModuleIds

\* mount_module(module_ids), lines 126-305.  The tools are coroutines of one
\* event loop and the import of line 195 is a plain call: while it does not
\* return, neither this call nor any other tool of the server goes on.
mount_module ==
    /\ ~mount_pending.waiting
    /\ \E module_ids \in IdLists :
       \E load \in [Requested(module_ids) \ mounted_modules -> Loads] :
        /\ IF module_ids = <<>>
           THEN /\ mount_result' = MountResult(<<>>, FALSE, FALSE, <<>>, 0, 0,
                                              Cardinality(mounted_modules))
                /\ UNCHANGED <<mounted_modules, mount_calls, mcp_servers, mount_pending>>
           ELSE \E st \in {MountLoop(module_ids, load, 1,
                                     [mounted |-> mounted_modules, calls |-> mount_calls,
                                      servers |-> mcp_servers, details |-> <<>>,
                                      success_count |-> 0, failed_count |-> 0,
                                      waiting |-> FALSE])} :
                /\ \A m \in ModuleIds : st.calls[m] <= MaxMountCalls
                /\ mounted_modules' = st.mounted
                /\ mount_calls' = st.calls
                /\ mcp_servers' = st.servers
                /\ IF st.waiting
                   THEN /\ mount_result' = NoMountResult
                        /\ mount_pending' = Pending(TRUE, module_ids, st.details)
                   ELSE /\ mount_result' = MountReport(module_ids, st)
                        /\ mount_pending' = mount_pending
        /\ list_result' = NoListResult
        /\ UNCHANGED <<streamVars, storeVars>>

\* list_available_modules(), lines 84-124
list_available_modules ==
    /\ ~mount_pending.waiting
    /\ list_result' = ListResult(TRUE, mounted_modules)
    /\ mount_result' = NoMountResult
    /\ UNCHANGED <<mounted_modules, mount_calls, mcp_servers, mount_pending>>
    /\ UNCHANGED <<streamVars, storeVars>>

NextRegistry == mount_module \/ list_available_modules

SpecRegistry == Init /\ [][NextRegistry]_vars

-----------------------------------------------------------------------------
(* Properties of the event sequence of one stream                          *)

IsEntry(i, type) == i \in 1..Len(trace) /\ trace[i].type = type

EffectTypes == {"todos_assigned", "broadcast", "refresh_ok", "refresh_failed"}

\* offsets of the text at which a complete marker starts
MarkerStarts(text) ==
    {q \in 0..(Len(text) - 1) :
        \E m \in 1..Len(section_markers) : StartsWithAt(text, section_markers[m], q)}

\* end of the span that starts at `from`: the next marker, or the end of the text
SpanEnd(text, from) ==
    IF {q \in MarkerStarts(text) : q >= from} = {} THEN Len(text)
    ELSE Min({q \in MarkerStarts(text) : q >= from})

\* the marker that starts at offset pos
MarkerOf(text, pos) ==
    CHOOSE m \in {section_markers[k] : k \in 1..Len(section_markers)} :
        StartsWithAt(text, m, pos)

\* text between the end of the marker at pos and the next marker or the end
SpanOf(text, pos) ==
    Slice(text, pos + Len(MarkerOf(text, pos)),
          SpanEnd(text, pos + Len(MarkerOf(text, pos))))

\* the text as it was when entry i was produced
SnapshotOf(i) == Slice(previous_text, 0, trace[i].at)

\* concatenation of the content events of `section`, from entry i on
RECURSIVE ContentConcat(_, _)
ContentConcat(section, i) ==
    IF i > Len(trace) THEN <<>>
    ELSE IF trace[i].type = "content" /\ trace[i].section = section
    THEN trace[i].content \o ContentConcat(section, i + 1)
    ELSE ContentConcat(section, i + 1)

IsLastComplete(i) ==
    /\ IsEntry(i, "section_complete")
    /\ \A j \in (i + 1)..Len(trace) : trace[j].type # "section_complete"

\* C2: when a tool-calls section whose content is a well-formed task-list
\* trigger with a todos array of two items has been closed (and no later
\* section has been closed since), the stored task list holds exactly those
\* two items.
C2_StoreHoldsCommandItems ==
    \A i \in 1..Len(trace) :
        (/\ IsLastComplete(i)
         /\ Head(trace[i].section) = "tool-calls"
         /\ Strip(SpanOf(previous_text, trace[i].pos)) = CmdTwo)
        => current_todos = <<Item("1", "a", "pending"), Item("2", "a", "in_progress")>>

\* the text of the section that entry i (a section_complete) closes, as the
\* command checks see it: from the section's marker to the next marker
ClosedText(i) ==
    Slice(previous_text, trace[i].pos, SpanEnd(previous_text, trace[i].pos + 1))

RECURSIVE OpenAfter(_)
OpenAfter(i) ==
    IF i = 0 THEN None
    ELSE IF trace[i].type = "section_start" THEN trace[i].section
    ELSE IF trace[i].type = "section_complete" THEN None
    ELSE OpenAfter(i - 1)

\* C4: sections are well-bracketed: a section_start comes only while no
\* section is open, section_complete and content name the section that is
\* open, and a completed section gets no further section_start or content.
C4_WellBracketed ==
    \A i \in 1..Len(trace) :
        /\ trace[i].type = "section_start" => OpenAfter(i - 1) = None
        /\ trace[i].type \in {"section_complete", "content"}
              => OpenAfter(i - 1) = trace[i].section
        /\ trace[i].type = "section_complete"
              => \A j \in (i + 1)..Len(trace) :
                    trace[j].type \in {"section_start", "content"}
                        => trace[j].section # trace[i].section

\* a finished stream with two sections, the first of them with content
C4_Witness ==
    /\ pc = "done"
    /\ \E i, j, k \in 1..Len(trace) :
        /\ i < j /\ j < k
        /\ trace[i].type = "content"
        /\ trace[j].type = "section_complete" /\ trace[j].section = trace[i].section
        /\ trace[k].type = "section_complete" /\ trace[k].section # trace[j].section

\* the kind a marker opens
KindOf(marker) ==
    CASE marker = <<"[", "THINK", "]">> -> "think"
      [] marker = <<"[", "TOOL_CALL", "]">> -> "tool-calls"
      [] marker = <<"[", "TOOL_RESPONSE", "]">> -> "tool-responses"
      [] marker = <<"[", "ANSWER", "]">> -> "answer"

\* the number of section_start events among the first i entries whose
\* section is of kind `kind`
RECURSIVE Occurrence(_, _)
Occurrence(kind, i) ==
    IF i = 0 THEN 0
    ELSE Occurrence(kind, i - 1)
         + (IF trace[i].type = "section_start" /\ Head(trace[i].section) = kind
            THEN 1 ELSE 0)

\* C5: the k-th section opened for a kind is named `kind` when k = 1 and
\* `kind-k` when k > 1, the kind being that of the marker the section starts
\* at; no two section_start events carry the same name.
C5_SectionNames ==
    \A i \in 1..Len(trace) :
        trace[i].type = "section_start" =>
            /\ Head(trace[i].section) = KindOf(MarkerOf(previous_text, trace[i].pos))
            /\ trace[i].section
                 = (IF Occurrence(Head(trace[i].section), i) = 1
                    THEN <<Head(trace[i].section)>>
                    ELSE <<Head(trace[i].section), "-",
                           ToString(Occurrence(Head(trace[i].section), i))>>)
            /\ \A j \in 1..Len(trace) :
                  (j # i /\ trace[j].type = "section_start")
                      => trace[j].section # trace[i].section

\* the third tool-calls section of a stream has been opened
C5_Witness ==
    \E i \in 1..Len(trace) :
        /\ trace[i].type = "section_start"
        /\ trace[i].section = <<"tool-calls", "-", "3">>

-----------------------------------------------------------------------------
(* Properties of the task-list store                                       *)

\* an item the store's contract does not admit
InvalidItem(todo) ==
    \/ todo.id = Absent
    \/ todo.content = Absent
    \/ todo.status = Absent
    \/ todo.status \notin {"pending", "in_progress", "completed"}

\* the step is a call of POST /api/todos/update (not the second write of a
\* call already under way)
IsUpdateCall == req'.op = "update" /\ ~(upd.stage = "content" /\ upd'.stage = "idle")

\* C6: a full-list write in which an item, at any position, lacks id,
\* content or status or has a status outside pending / in_progress /
\* completed is answered 400 without success, leaves the stored list as it
\* was and emits no notification.
C6_InvalidReplaceRejected ==
    [][(req'.op = "replace" /\ \E k \in 1..Len(req'.todos) : InvalidItem(req'.todos[k]))
        => (/\ resp'.code = 400
            /\ ~resp'.success
            /\ current_todos' = current_todos
            /\ sent' = <<>>)]_vars

\* a two-item write whose second item only is invalid has been rejected
\* while the store held a list
C6_Witness ==
    /\ req.op = "replace"
    /\ Len(req.todos) = 2
    /\ ~InvalidItem(req.todos[1])
    /\ InvalidItem(req.todos[2])
    /\ resp.code = 400
    /\ current_todos # <<>>

\* C7: an incremental update that carries id and status and whose id no
\* stored item has is answered 404 without success, leaves the stored list
\* as it was and emits no notification.
C7_UnknownIdNotFound ==
    [][(/\ IsUpdateCall
        /\ req'.update.id # Absent
        /\ req'.update.status # Absent
        /\ \A k \in 1..Len(current_todos) : current_todos[k].id # req'.update.id)
        => (/\ resp'.code = 404
            /\ ~resp'.success
            /\ current_todos' = current_todos
            /\ sent' = <<>>)]_vars

\* an update with content for an unknown id has been answered 404 while the
\* store held two items
C7_Witness ==
    /\ req.op = "update"
    /\ req.update.content # Absent
    /\ resp.code = 404
    /\ Len(current_todos) = 2
    /\ \A k \in 1..Len(current_todos) : current_todos[k].id # req.update.id

\* C8: an incremental update whose status is not one of pending /
\* in_progress / completed is refused (400, or 404 for an unknown id) and
\* leaves the stored list as it was.
C8_InvalidStatusRejected ==
    [][(/\ IsUpdateCall
        /\ req'.update.status # Absent
        /\ req'.update.status \notin {"pending", "in_progress", "completed"})
        => (/\ resp'.code \in {400, 404}
            /\ current_todos' = current_todos)]_vars

\* C9: every stored item has id, content and a status among pending /
\* in_progress / completed, and no two stored items share an id.
C9_StoreInvariant ==
    /\ \A k \in 1..Len(current_todos) : ~InvalidItem(current_todos[k])
    /\ \A k, l \in 1..Len(current_todos) :
          k # l => current_todos[k].id # current_todos[l].id

\* C10: no observer is sent a list in which an incremental update is only
\* partly applied: while an update is between its write of the status and
\* its write of the content, and the list differs both from the list before
\* the update and from the list after it, no message carries the list.
C10_NoPartialUpdateObserved ==
    (/\ upd.stage = "content"
     /\ upd.live
     /\ current_todos # upd.before
     /\ current_todos[upd.idx].content # upd.update.content)
    => \A k \in 1..Len(sent) : sent[k].todos # current_todos

\* C11: every successful full-list write, incremental update and clear
\* emits, before it returns, exactly one notification to all observers whose
\* todos is the stored list as the mutation leaves it (the empty list for
\* clear); a connecting observer is sent the stored list at once.
C11_MutationNotifiesOnce ==
    [][/\ (resp'.success /\ req'.op \in {"replace", "update", "clear"})
            => sent' = <<[to |-> "all", todos |-> current_todos']>>
       /\ req'.op = "clear" => (resp'.success /\ current_todos' = <<>>)
       /\ req'.op = "connect"
            => (/\ sent' = <<[to |-> "client", todos |-> current_todos]>>
                /\ current_todos' = current_todos)]_vars

\* an update of status and content has returned success and its one
\* notification carries the two stored items
C11_Witness ==
    /\ req.op = "update"
    /\ req.update.content # Absent
    /\ resp.success
    /\ Len(sent) = 1
    /\ Len(current_todos) = 2
    /\ sent[1].todos = current_todos
    /\ \E k \in 1..2 : current_todos[k].content = req.update.content

-----------------------------------------------------------------------------
(* Faults, termination and finalization of one stream                      *)

\* C15: the segmentation loop never fails as a whole: whatever happens in
\* one update step, the loop is still running afterwards, or has ended
\* normally.
C15_LoopSurvivesFaults ==
    [][pc = "running" => pc' \in {"running", "done"}]_vars

\* C16: once the stream has ended, on any path, its event sequence holds
\* the complete event exactly once, as its last event; before that it holds
\* none.
C16_CompleteExactlyOnceLast ==
    /\ pc = "running" => \A i \in 1..Len(trace) : trace[i].type # "complete"
    /\ pc # "running" =>
         /\ trace # <<>>
         /\ trace[Len(trace)].type = "complete"
         /\ Cardinality({i \in 1..Len(trace) : trace[i].type = "complete"}) = 1

\* an entry that is an event sent to the client
IsYielded(e) ==
    e.type \in {"section_start", "content", "section_complete", "complete", "error"}

\* the events one iteration yields on `text` when the refresh returns ok
StepEvents(text, ok) ==
    SelectSeq(LoopBody(text, current_section, last_marker_pos, last_sent_content,
                       section_counters, ok).out, IsYielded)

\* the entries the step appended to the trace
Appended == SubSeq(trace', Len(trace) + 1, Len(trace'))

\* C17: a failing registry refresh does not abort segmentation: an iteration
\* in which the refresh fails yields the events the same iteration yields
\* when the refresh succeeds, and a failed refresh is followed at once by
\* section_complete of the section being closed and by the next
\* section_start.
C17_FailedRefreshChangesNoEvent ==
    [][(/\ pc = "running"
        /\ pc' = "running"
        /\ previous_text' # previous_text
        /\ \E i \in 1..Len(Appended) : Appended[i].type = "refresh_failed")
        => (/\ SelectSeq(Appended, IsYielded) = StepEvents(previous_text', TRUE)
            /\ StepEvents(previous_text', FALSE) = StepEvents(previous_text', TRUE)
            /\ \A i \in 1..Len(Appended) :
                  Appended[i].type = "refresh_failed"
                  => (/\ i + 2 <= Len(Appended)
                      /\ Appended[i + 1].type = "section_complete"
                      /\ Appended[i + 1].section = Appended[i].section
                      /\ Appended[i + 2].type = "section_start"))]_vars

\* a refresh has failed and the section was closed and the next one opened
C17_Witness ==
    \E i \in 1..Len(trace) :
        /\ trace[i].type = "refresh_failed"
        /\ IsEntry(i + 1, "section_complete")
        /\ IsEntry(i + 2, "section_start")

\* C19: when the stream ends with a section open, the trace ends with that
\* section's section_complete and then complete, and, for a tool-calls /
\* tool-responses section, both command checks were run on its final text
\* before: a parsable task-list command has had its broadcast and a
\* module-mount trigger its registry refresh.
C19_FinalizeRunsBothChecks ==
    (pc = "done" /\ current_section # None) =>
        /\ Len(trace) >= 2
        /\ trace[Len(trace)].type = "complete"
        /\ trace[Len(trace) - 1].type = "section_complete"
        /\ trace[Len(trace) - 1].section = current_section
        /\ (/\ IsToolSection(current_section)
            /\ DetectTodoWrite(Slice(previous_text, last_marker_pos,
                                     Len(previous_text))) # <<>>)
              => \E j \in 1..(Len(trace) - 2) :
                    /\ trace[j].type = "broadcast"
                    /\ trace[j].section = current_section
        /\ (/\ IsToolSection(current_section)
            /\ Contains(Slice(previous_text, last_marker_pos, Len(previous_text)),
                        <<"mount_module">>))
              => \E j \in 1..(Len(trace) - 2) :
                    /\ trace[j].type \in {"refresh_ok", "refresh_failed"}
                    /\ trace[j].section = current_section

\* C20: once the stream has ended normally, there are as many section_start
\* events as there are marker occurrences in the final text.
C20_EveryMarkerOpensASection ==
    pc = "done" =>
        Cardinality({i \in 1..Len(trace) : trace[i].type = "section_start"})
            = Cardinality(MarkerStarts(previous_text))

-----------------------------------------------------------------------------
(* Properties of the registry *)

\* a step in which a mount_module call returned its report
IsMountStep == mount_result'.has_report /\ vars' # vars

Successes(details) == {i \in 1..Len(details) : details[i].success}

\* C12: the report of a mount call has one detail entry per requested id, in
\* the order of the request; an unknown id and an id that was mounted when
\* the call began are reported failed; success_count + failed_count is the
\* number of requested ids, success_count counting the successful entries;
\* success is true exactly when failed_count = 0; every id reported
\* successful is mounted afterwards.
C12_IndependentPerIdReport ==
    /\ [](mount_result.has_report =>
            /\ Len(mount_result.details) = Len(mount_result.requested)
            /\ mount_result.total_requested = Len(mount_result.requested)
            /\ \A i \in 1..Len(mount_result.requested) :
                /\ mount_result.details[i].module_id = mount_result.requested[i]
                /\ mount_result.requested[i] \notin DOMAIN AVAILABLE_MODULES
                        => ~mount_result.details[i].success
                /\ mount_result.details[i].success
                        => mount_result.requested[i] \in mounted_modules
            /\ mount_result.success_count = Cardinality(Successes(mount_result.details))
            /\ mount_result.success_count + mount_result.failed_count
                    = Len(mount_result.requested)
            /\ mount_result.success <=> mount_result.failed_count = 0)
    /\ [][IsMountStep =>
            \A i \in 1..Len(mount_result'.requested) :
                mount_result'.requested[i] \in mounted_modules
                    => ~mount_result'.details[i].success]_vars

\* a call of two ids, the first unknown and failed, the second mounted by it
C12_Witness ==
    /\ mount_result.has_report
    /\ Len(mount_result.requested) = 2
    /\ mount_result.requested[1] = "nope"
    /\ ~mount_result.details[1].success
    /\ mount_result.details[2].success
    /\ mount_result.requested[2] \in mounted_modules
    /\ mount_result.success_count = 1
    /\ mount_result.failed_count = 1

\* C13 as stated: mcp.mount is invoked at most once per module id.
C13_AttachInvokedAtMostOnce ==
    \A m \in ModuleIds : mount_calls[m] <= 1

\* C13: mcp.mount returns normally at most once per module id, and has done
\* so exactly for the ids of the mounted set; it is never invoked for an id
\* that is in the mounted set, such a request is reported failed, and an id
\* in the mounted set stays in it.
C13_MountedAtMostOnce ==
    /\ [](\A m \in ModuleIds :
            /\ mcp_servers[m] <= 1
            /\ mcp_servers[m] = 1 <=> m \in mounted_modules)
    /\ [][\A m \in mounted_modules :
            /\ m \in mounted_modules'
            /\ mount_calls'[m] = mount_calls[m]
            /\ mcp_servers'[m] = mcp_servers[m]
            /\ IsMountStep =>
                 \A i \in 1..Len(mount_result'.requested) :
                    mount_result'.requested[i] = m
                        => ~mount_result'.details[i].success]_vars

\* a call naming a mounted id twice with a failure for each; mcp.mount had
\* been invoked twice for the id, the first invocation having raised
C13_Witness ==
    \E m \in mounted_modules :
        /\ mount_result.has_report
        /\ mount_result.requested = <<m, m>>
        /\ ~mount_result.details[1].success
        /\ ~mount_result.details[2].success
        /\ mount_calls[m] = 2
        /\ mcp_servers[m] = 1

\* C14: after a mount call a module is in the mounted set if and only if it
\* was in it before the call or one of its per-id results in the call is a
\* success.
C14_FailureLeavesMountState ==
    [][IsMountStep =>
        \A m \in ModuleIds :
            m \in mounted_modules'
                <=> \/ m \in mounted_modules
                    \/ \E i \in 1..Len(mount_result'.requested) :
                        /\ mount_result'.requested[i] = m
                        /\ mount_result'.details[i].success]_vars

\* C18: the listing has an entry for every configured module; is_mounted is
\* true exactly for the modules of the mounted set; a mounted module lists
\* one name sumo_server-<module id>_<tool> per declared tool and an unmounted
\* module lists none; mounted_count and unmounted_count count the entries
\* with is_mounted true and false, and add up to total_modules.
C18_ListingMatchesMountState ==
    list_result.valid =>
        /\ DOMAIN list_result.available_modules = DOMAIN AVAILABLE_MODULES
        /\ \A m \in DOMAIN AVAILABLE_MODULES :
            /\ list_result.available_modules[m].is_mounted <=> m \in mounted_modules
            /\ list_result.available_modules[m].is_mounted =>
                /\ Len(list_result.available_modules[m].actual_tool_names)
                        = Len(AVAILABLE_MODULES[m].tools)
                /\ \A k \in 1..Len(AVAILABLE_MODULES[m].tools) :
                    list_result.available_modules[m].actual_tool_names[k]
                        = "sumo_server-" \o m \o "_" \o AVAILABLE_MODULES[m].tools[k]
            /\ ~list_result.available_modules[m].is_mounted =>
                list_result.available_modules[m].actual_tool_names = <<>>
        /\ list_result.mounted_count
                = Cardinality({m \in DOMAIN AVAILABLE_MODULES :
                                 list_result.available_modules[m].is_mounted})
        /\ list_result.unmounted_count
                = Cardinality({m \in DOMAIN AVAILABLE_MODULES :
                                 ~list_result.available_modules[m].is_mounted})
        /\ list_result.total_modules = Cardinality(DOMAIN AVAILABLE_MODULES)
        /\ list_result.mounted_count + list_result.unmounted_count
                = list_result.total_modules

\* a listing with one module mounted and one not
C18_Witness ==
    /\ list_result.valid
    /\ list_result.mounted_count = 1
    /\ list_result.unmounted_count = 1
    /\ \E m \in ModuleIds :
        /\ list_result.available_modules[m].is_mounted
        /\ Len(list_result.available_modules[m].actual_tool_names) = 2

-----------------------------------------------------------------------------
(* Content, commands and the first section *)

\* indices of the content events of `section` before entry i
ContentBefore(section, i) ==
    {j \in 1..(i - 1) : trace[j].type = "content" /\ trace[j].section = section}

Max(S) == CHOOSE x \in S : \A y \in S : y <= x

\* C21: when section_complete is emitted for a section whose final trimmed
\* content (between the end of its marker and the next marker or the end of
\* the text) is not empty, the latest content event of the section carries
\* exactly that content.
C21_LastContentIsFinalContent ==
    \A i \in 1..Len(trace) :
        (/\ trace[i].type = "section_complete"
         /\ Strip(SpanOf(previous_text, trace[i].pos)) # <<>>)
        => /\ ContentBefore(trace[i].section, i) # {}
           /\ trace[Max(ContentBefore(trace[i].section, i))].content
                = Strip(SpanOf(previous_text, trace[i].pos))

\* the text with every TodoWrite keyword replaced by ordinary text
NoKeyword(text) == [k \in 1..Len(text) |-> IF text[k] = "TodoWrite" THEN "a" ELSE text[k]]

\* the section events of a sequence of entries: their types and sections
RECURSIVE SectionEvents(_)
SectionEvents(out) ==
    IF out = <<>> THEN <<>>
    ELSE IF Head(out).type \in {"section_start", "section_complete", "complete"}
    THEN <<[type |-> Head(out).type, section |-> Head(out).section]>>
         \o SectionEvents(Tail(out))
    ELSE SectionEvents(Tail(out))

\* the step closes the section that was open
IsClosingStep ==
    /\ pc = "running"
    /\ current_section # None
    /\ \E i \in 1..Len(Appended) :
        Appended[i].type = "section_complete" /\ Appended[i].section = current_section

\* the text of the closing section as the command checks of the step see it
ClosingText ==
    Slice(previous_text', last_marker_pos,
          IF pc' = "done" THEN Len(previous_text')
          ELSE SpanEnd(previous_text', last_marker_pos + 1))

\* a task-list command that stores nothing: the keyword is there and the
\* pattern does not match, the captured group does not parse, or the todos
\* array is empty
MalformedCommand(txt) ==
    /\ Contains(txt, <<"TodoWrite">>)
    /\ \/ TodoPatternGroup(txt) = None
       \/ ~JsonLoadsTodos(TodoPatternGroup(txt)).ok
       \/ JsonLoadsTodos(TodoPatternGroup(txt)).todos = <<>>

\* the section events the step yields on the text without the keyword
EventsWithoutCommand ==
    IF pc' = "done"
    THEN SectionEvents(AfterLoop(NoKeyword(previous_text'), current_section,
                                 last_marker_pos, <<>>))
    ELSE SectionEvents(LoopBody(NoKeyword(previous_text'), current_section,
                                last_marker_pos, last_sent_content, section_counters,
                                TRUE).out)

\* C22: closing a tool section whose text holds a malformed task-list
\* command has no side effect: the stored list and the list bound by the
\* engine are unchanged, nothing is broadcast, no task-list effect is
\* performed, and the section events yielded are those the same step yields
\* on the text without the command.
C22_MalformedCommandNoEffect ==
    [][(/\ IsClosingStep
        /\ IsToolSection(current_section)
        /\ MalformedCommand(ClosingText))
        => (/\ current_todos' = current_todos
            /\ local_todos' = local_todos
            /\ sent' = <<>>
            /\ \A i \in 1..Len(Appended) :
                Appended[i].type \notin {"todos_assigned", "broadcast"}
            /\ pc' # "failed"
            /\ SectionEvents(Appended) = EventsWithoutCommand)]_vars

\* a tool-calls section whose whole content was a command that does not
\* parse has been closed and nothing was broadcast
C22_Witness ==
    \E i \in 1..Len(trace) :
        /\ trace[i].type = "section_complete"
        /\ Head(trace[i].section) = "tool-calls"
        /\ Strip(SpanOf(previous_text, trace[i].pos)) = CmdBracket
        /\ \A j \in 1..Len(trace) : trace[j].type # "broadcast"

\* C23: closing a think or answer section never changes the task list,
\* never broadcasts and never refreshes the registry, whatever its content.
C23_OnlyToolSectionsRunCommands ==
    [][(IsClosingStep /\ Head(current_section) \in {"think", "answer"})
        => (/\ current_todos' = current_todos
            /\ local_todos' = local_todos
            /\ sent' = <<>>
            /\ \A i \in 1..Len(Appended) : Appended[i].type \notin EffectTypes)]_vars

\* a think or answer section holding a parsable task-list command was
\* closed by the next marker, and no effect was performed
C23_Witness ==
    /\ \E i \in 1..Len(trace) :
        /\ trace[i].type = "section_complete"
        /\ Head(trace[i].section) \in {"think", "answer"}
        /\ DetectTodoWrite(ClosedText(i)) # <<>>
        /\ IsEntry(i + 1, "section_start")
    /\ \A j \in 1..Len(trace) : trace[j].type \notin EffectTypes

\* C24: every command effect (task-list assignment, broadcast, registry
\* refresh) is performed in the step that closes its section, right before
\* the section's section_complete, and at most once per section; a step
\* that closes no section changes no list, broadcasts nothing and performs
\* no effect, whatever text the open section holds.
C24_CommandsOnlyAtClose ==
    /\ [](\A j \in 1..Len(trace) :
            trace[j].type \in EffectTypes =>
                /\ \E i \in (j + 1)..Len(trace) :
                    /\ trace[i].type = "section_complete"
                    /\ trace[i].section = trace[j].section
                    /\ trace[i].at = trace[j].at
                    /\ \A k \in j..(i - 1) :
                        trace[k].type \in EffectTypes /\ trace[k].section = trace[j].section
                /\ \A k \in 1..Len(trace) :
                    (trace[k].type = trace[j].type /\ trace[k].section = trace[j].section)
                        => k = j
                /\ trace[j].type \in {"refresh_ok", "refresh_failed"}
                    => \A k \in 1..Len(trace) :
                        (/\ trace[k].type \in {"refresh_ok", "refresh_failed"}
                         /\ trace[k].section = trace[j].section) => k = j)
    /\ [][(pc = "running" /\ ~IsClosingStep)
            => (/\ current_todos' = current_todos
                /\ local_todos' = local_todos
                /\ sent' = <<>>
                /\ \A i \in 1..Len(Appended) : Appended[i].type \notin EffectTypes)]_vars

\* a tool section showed a parsable task-list command in a content event of
\* one snapshot and was closed by a later snapshot, with its one broadcast
C24_Witness ==
    \E c, j \in 1..Len(trace) :
        /\ trace[c].type = "content"
        /\ DetectTodoWrite(trace[c].content) # <<>>
        /\ trace[j].type = "broadcast"
        /\ trace[j].section = trace[c].section
        /\ trace[c].at < trace[j].at
        /\ IsEntry(j + 1, "section_complete")

\* C25: the step that opens the first section opens it at the lowest offset
\* at which a marker starts in the text, with the kind of the marker there,
\* whatever the marker's place in the declared list.
C25_FirstSectionAtLowestOffset ==
    [][(pc = "running" /\ current_section = None /\ current_section' # None)
        => (/\ MarkerStarts(previous_text') # {}
            /\ last_marker_pos' = Min(MarkerStarts(previous_text'))
            /\ current_section' = <<KindOf(MarkerOf(previous_text', last_marker_pos'))>>
            /\ Appended[1] = Entry("section_start", current_section', <<>>,
                                   Min(MarkerStarts(previous_text')),
                                   Len(previous_text')))]_vars

\* the first section was opened on a text in which a marker declared
\* earlier than the opened one occurs at a higher offset
C25_Witness ==
    /\ Len(trace) > 0
    /\ trace[1].type = "section_start"
    /\ \E m, n \in 1..Len(section_markers) :
        /\ m < n
        /\ StartsWithAt(SnapshotOf(1), section_markers[n], trace[1].pos)
        /\ Find(SnapshotOf(1), section_markers[m], 0) > trace[1].pos

\* C26: the content of a content event holds no complete marker.
C26_NoMarkerInContent ==
    \A i \in 1..Len(trace) :
        trace[i].type = "content" => MarkerStarts(trace[i].content) = {}

\* a content event carried the first symbols of a marker that a later
\* snapshot completed: the next section starts inside the text that the
\* content event was cut from
C26_Witness ==
    \E i, j \in 1..Len(trace) :
        /\ i < j
        /\ trace[i].type = "content"
        /\ trace[j].type = "section_start"
        /\ trace[j].pos > trace[i].pos
        /\ trace[j].pos < trace[i].at
        /\ \E k \in 1..Len(trace[i].content) : trace[i].content[k] = "ANSWER"

\* the content events among the entries the step appended
AppendedContent == SelectSeq(Appended, LAMBDA e : e.type = "content")

\* the content last emitted for the section that is open after the step:
\* empty when the step opened it
LastEmitted == IF last_marker_pos' = last_marker_pos THEN last_sent_content ELSE <<>>

\* the content of the latest content event of `section` in the trace, empty
\* when it has none
LatestContent(section) ==
    IF ContentBefore(section, Len(trace) + 1) = {} THEN <<>>
    ELSE trace[Max(ContentBefore(section, Len(trace) + 1))].content

\* C27: in every iteration that leaves a section open, a content event is
\* emitted exactly when the section's trimmed content differs from the
\* content last emitted for it (empty right after the section opens), and
\* it carries that content; so it differs from the content of the content
\* event emitted before it for the section.
C27_ContentEmittedIffChanged ==
    [][(pc = "running" /\ pc' = "running" /\ previous_text' # previous_text
        /\ current_section' # None)
        => \E cur \in {Strip(SpanOf(previous_text', last_marker_pos'))} :
           \E ac \in {AppendedContent} :
            /\ ac # <<>> <=> cur # LastEmitted
            /\ ac # <<>> =>
                /\ Len(ac) = 1
                /\ ac[1].section = current_section'
                /\ ac[1].content = cur
                /\ ac[1].content # LatestContent(current_section')
            /\ last_sent_content' = IF ac # <<>> THEN cur ELSE LastEmitted]_vars

\* the open section got a content event, the text has grown since and the
\* trimmed content is the same: no further event
C27_Witness ==
    /\ pc = "running"
    /\ Len(trace) > 0
    /\ trace[Len(trace)].type = "content"
    /\ trace[Len(trace)].section = current_section
    /\ trace[Len(trace)].at < Len(previous_text)
    /\ trace[Len(trace)].content = Strip(SpanOf(previous_text, last_marker_pos))

-----------------------------------------------------------------------------
(* The frame of the incremental update *)

\* the step is the first write of an update that found its item
IsStatusWrite ==
    /\ IsUpdateCall
    /\ upd.stage = "idle"
    /\ resp'.code = 200 \/ upd'.stage = "content"
    /\ vars' # vars

\* the step is the second write of an update, the one of the content
IsContentWrite == upd.stage = "content" /\ upd'.stage = "idle"

\* C28: an incremental update that finds its item writes the status of one
\* item with the requested id and nothing else; it writes that item's
\* content, and nothing else, only when the request carries a content; the
\* other items, the number of items and their order stay as they are, also
\* when several items have the id.
C28_UpdateChangesOnlyAddressedItem ==
    /\ [][IsStatusWrite =>
            /\ \E k \in 1..Len(current_todos) :
                /\ current_todos[k].id = req'.update.id
                /\ current_todos' = [current_todos EXCEPT ![k].status = req'.update.status]
            /\ resp'.code = 200 <=> req'.update.content = Absent
            /\ upd'.stage = "content" <=> req'.update.content # Absent]_vars
    /\ [][IsContentWrite =>
            /\ upd.update.content # Absent
            /\ \/ current_todos' = current_todos
               \/ \E k \in 1..Len(current_todos) :
                    /\ current_todos[k].id = upd.update.id
                    /\ current_todos' = [current_todos EXCEPT ![k].content = upd.update.content]
            /\ resp'.code = 200]_vars

\* two stored items share an id; an update of that id was answered 200 and
\* one of the two has the requested status, the other one not
C28_Witness ==
    /\ req.op = "update"
    /\ resp.code = 200
    /\ Len(current_todos) = 2
    /\ current_todos[1].id = req.update.id
    /\ current_todos[2].id = req.update.id
    /\ current_todos[1].status = req.update.status
    /\ current_todos[2].status # req.update.status

-----------------------------------------------------------------------------
(* A module whose load does not return *)

\* C29: a load that does not return does not keep the batch from going on:
\* no mount call is left waiting for a load while ids of its request,
\* the loading one among them, have no per-id result.  (A call that waits
\* takes no further step, so what it lacks then it lacks for ever.)
C29_HangingLoadDoesNotBlockBatch ==
    mount_pending.waiting
        => Len(mount_pending.details) = Len(mount_pending.requested)

-----------------------------------------------------------------------------
(* Text outside the sections *)

\* the yielded events of the trace
Yielded == SelectSeq(trace, IsYielded)

\* the first marker's offset in the text, the text's length when it has none
FirstMarkerPos(text) ==
    IF MarkerStarts(text) = {} THEN Len(text) ELSE Min(MarkerStarts(text))

\* C30: text outside any section is never emitted: when the stream has
\* ended on a text without a marker its only event is complete, and every
\* content event is cut from text after the first marker of its snapshot.
C30_NoTextOutsideSections ==
    /\ (pc # "running" /\ MarkerStarts(previous_text) = {})
        => /\ Len(Yielded) = 1
           /\ Yielded[1].type = "complete"
    /\ \A i \in 1..Len(trace) :
        trace[i].type = "content" =>
            /\ trace[i].pos >= FirstMarkerPos(SnapshotOf(i))
            /\ trace[i].content
                = Strip(Slice(SnapshotOf(i), trace[i].pos + 3,
                              SpanEnd(SnapshotOf(i), trace[i].pos + 3)))

=============================================================================
